---- MODULE Spec2Model ----
(***************************************************************************)
(* Model of src/python/creational/object_pool.py: ModelPool, the           *)
(* AbstractModel interface it is generic over, SampleModel, and the demo   *)
(* script under __main__; and of src/python/creational/builder.py:         *)
(* Activation, Layer (its shapes and activation), NeuralNetwork and        *)
(* NetworkBuilder.                                                         *)
(*                                                                         *)
(* A Python dict is modelled as a sequence of [key, model] entries in      *)
(* insertion order with unique keys, so that popitem() (which removes the  *)
(* last inserted entry) is computed as CPython computes it.                *)
(***************************************************************************)
EXTENDS Integers, Sequences, FiniteSets, TLC

(* ------------------------------ bounds --------------------------------- *)

\* Number of distinct model objects the client code owns.
NumModels == 3

\* Cap on the number of successful add() calls of one run.
MaxAdds == 4

\* Longest input list handed to SampleModel.predict.
MaxLen == 11

\* Largest seed of the random generator that fills SampleModel._shift.
MaxSeed == 2

\* Cap on the number of layers added to one NetworkBuilder.
MaxLayers == 3

\* Largest input_size and output_size passed to the builder.
MaxSize == 2

(* ----------------------------- constants ------------------------------- *)

\* len(self._shift): range(10) in SampleModel.__init__.
ShiftLen == 10

\* random.randint(-10, 10): the entries of _shift lie in -ShiftBound..ShiftBound.
ShiftBound == 10

Models == 1 .. NumModels

\* Python's None (no model returned).
None == 0

VARIABLES
    free,       \* self._objects["free"]: dict id -> model
    in_use,     \* self._objects["in_use"]: dict id -> model
    pc,         \* "idle", or "reset" while release() is inside model.reset()
    result,     \* the pool call in progress or last finished, see Call
    added,      \* number of add() calls that succeeded
    tracked,    \* models some add() call succeeded on
    checkouts,  \* per model: successful get()s since its last successful release
    everOut,    \* models some get() has returned
    dirty,      \* models carrying state mutated by predict() since construction
    order,      \* the models now in free, oldest entry into free first, each
                \* with the operation ("add" or "release") it entered by
    phase,      \* position of the __main__ script
    n,          \* number of models the script creates
    got,        \* what the script's get() calls returned, in order
    extra,      \* outcome of the script's get() on the emptied pool
    shift,      \* SampleModel._shift of the model under test
    shift0,     \* _shift as __init__ left it
    x,          \* the caller's input list, as it is after the predict call
    xin,        \* the caller's input list, as it was when predict was called
    y,          \* what the last predict call returned
    px,         \* input of the predict call before the last
    py,         \* output of the predict call before the last
    lastOp,     \* last SampleModel method called ("predict after reset": a
                \* predict whose preceding call was reset)
    input,      \* NetworkBuilder._input
    layers,     \* NetworkBuilder._layers
    names,      \* NetworkBuilder._names
    counter,    \* NetworkBuilder._counter: dict Activation -> int
    network,    \* the NeuralNetwork build() returned, if any
    lastAdd     \* the last NetworkBuilder method called, its argument and
                \* len(_layers) when it was entered

poolVars == <<free, in_use, pc, result, added, tracked, checkouts, everOut, dirty,
              order>>
demoVars == <<phase, n, got, extra>>
sampleVars == <<shift, shift0, x, xin, y, px, py, lastOp>>
builderVars == <<input, layers, names, counter, network, lastAdd>>
vars == <<poolVars, demoVars, sampleVars, builderVars>>

(* ------------------------------- dict ---------------------------------- *)

\* `key in d`
Keys(d) == {d[i].key : i \in DOMAIN d}

\* the values of d
Values(d) == {d[i].model : i \in DOMAIN d}

\* `d[key] = model`: an existing key keeps its position, a new one goes last.
DictSet(d, key, model) ==
    IF key \in Keys(d)
    THEN [i \in DOMAIN d |->
            IF d[i].key = key THEN [key |-> key, model |-> model] ELSE d[i]]
    ELSE Append(d, [key |-> key, model |-> model])

\* d.clear()
DictClear(d, key) == <<>>

\* `del d[key]` for a key that is present.
DictDel(d, key) == SelectSeq(d, LAMBDA e : e.key # key)

\* d.popitem() raises KeyError on an empty dict.
PopitemRaises(d) == Len(d) = 0

\* The entry inserted first (first in, first out).
PopitemFirst(d) == d[1]

\* d.popitem(): the entry removed (the last one inserted).
PopitemItem(d) == d[Len(d)]

\* A popitem() that reads the last entry without removing it.
PopitemKeeps(d) == d

\* d.popitem(): the dict left behind.
PopitemRest(d) == SubSeq(d, 1, Len(d) - 1)

(* ----------------------------- ModelPool ------------------------------- *)

\* A key computed from the model's internal state instead of its identity.
idByValue(model) == IF model \in dirty THEN -1 ELSE -2

\* id(model): CPython object identity, unique among live objects.
id(model) == model

\* The record of one pool call: its operation, argument, outcome ("ok", the
\* name of the exception that reached the caller, or "pending" while the call
\* is still running), return value, the number of model.reset() invocations it
\* made, and the two dicts (and the entry order of free) as they were when it
\* was entered.
Call(op, arg, outcome, ret, nreset) ==
    [op |-> op, arg |-> arg, outcome |-> outcome, ret |-> ret,
     nreset |-> nreset, preFree |-> free, preInUse |-> in_use,
     preOrder |-> order]

\* ModelPool.__init__
PoolInit ==
    /\ free = <<>>
    /\ in_use = <<>>
    /\ pc = "idle"
    /\ result = [op |-> "init", arg |-> None, outcome |-> "ok", ret |-> None,
                 nreset |-> 0, preFree |-> <<>>, preInUse |-> <<>>,
                 preOrder |-> <<>>]
    /\ added = 0
    /\ tracked = {}
    /\ checkouts = [m \in Models |-> 0]
    /\ everOut = {}
    /\ dirty = {}
    /\ order = <<>>

free_count == Len(free)

in_use_count == Len(in_use)

\* The assertion of add(): the key is in neither dict.
AddAssert(key) == \A k \in {"free", "in_use"} :
    key \notin Keys(IF k = "free" THEN free ELSE in_use)

\* ModelPool.add(model)
add(model) ==
    /\ pc = "idle"
    /\ LET key == id(model) IN
       IF AddAssert(key)
       THEN /\ added < MaxAdds
            /\ free' = DictSet(free, key, model)
            /\ added' = added + 1
            /\ tracked' = tracked \cup {model}
            /\ order' = Append(order, [model |-> model, by |-> "add"])
            /\ result' = Call("add", model, "ok", None, 0)
       ELSE /\ result' = Call("add", model, "AssertionError", None, 0)
            /\ UNCHANGED <<free, added, tracked, order>>
    /\ UNCHANGED <<in_use, pc, checkouts, everOut, dirty>>

\* A get() that swallows the KeyError of popitem() and returns None.
getSwallows ==
    /\ pc = "idle"
    /\ IF PopitemRaises(free)
       THEN /\ result' = Call("get", None, "ok", None, 0)
            /\ UNCHANGED <<free, in_use, checkouts, everOut, order>>
       ELSE LET item == PopitemItem(free) IN
            /\ free' = PopitemRest(free)
            /\ in_use' = DictSet(in_use, item.key, item.model)
            /\ checkouts' = [checkouts EXCEPT ![item.model] = @ + 1]
            /\ everOut' = everOut \cup {item.model}
            /\ order' = SelectSeq(order, LAMBDA e : e.model # item.model)
            /\ result' = Call("get", None, "ok", item.model, 0)
    /\ UNCHANGED <<pc, added, tracked, dirty>>

\* ModelPool.get()
get ==
    /\ pc = "idle"
    /\ IF PopitemRaises(free)
       THEN /\ result' = Call("get", None, "KeyError", None, 0)
            /\ UNCHANGED <<free, in_use, checkouts, everOut, order>>
       ELSE LET item == PopitemItem(free) IN
            /\ free' = PopitemRest(free)
            /\ in_use' = DictSet(in_use, item.key, item.model)
            /\ checkouts' = [checkouts EXCEPT ![item.model] = @ + 1]
            /\ everOut' = everOut \cup {item.model}
            /\ order' = SelectSeq(order, LAMBDA e : e.model # item.model)
            /\ result' = Call("get", None, "ok", item.model, 0)
    /\ UNCHANGED <<pc, added, tracked, dirty>>

\* An assertion that accepts any tracked key.
ReleaseAssertTracked(key) == key \in Keys(in_use) \cup Keys(free)

\* The assertion of release(): the key is in in_use.
ReleaseAssert(key) == key \in Keys(in_use)

\* ModelPool.release(model), up to and including the call of model.reset().
release(model) ==
    /\ pc = "idle"
    /\ LET key == id(model) IN
       IF ReleaseAssert(key)
       THEN /\ in_use' = DictDel(in_use, key)
            /\ pc' = "reset"
            /\ result' = Call("release", model, "pending", None, 1)
       ELSE /\ result' = Call("release", model, "AssertionError", None, 0)
            /\ UNCHANGED <<in_use, pc>>
    /\ UNCHANGED <<free, added, tracked, checkouts, everOut, dirty, order>>

\* model.reset() returns: release() stores the model in free and returns.
releaseReturn ==
    /\ pc = "reset"
    /\ LET model == result.arg IN
       /\ dirty' = dirty \ {model}
       /\ free' = DictSet(free, id(model), model)
       /\ checkouts' = [checkouts EXCEPT ![model] = 0]
       /\ order' = Append(SelectSeq(order, LAMBDA e : e.model # model),
                          [model |-> model, by |-> "release"])
    /\ pc' = "idle"
    /\ result' = [result EXCEPT !.outcome = "ok"]
    /\ UNCHANGED <<in_use, added, tracked, everOut>>

\* model.reset() raises: the exception leaves release() at the call.
releaseRaise ==
    /\ pc = "reset"
    /\ \E cleaned \in BOOLEAN :
          dirty' = IF cleaned THEN dirty \ {result.arg} ELSE dirty
    /\ pc' = "idle"
    /\ result' = [result EXCEPT !.outcome = "ResetError"]
    /\ UNCHANGED <<free, in_use, added, tracked, checkouts, everOut, order>>

\* AbstractModel.predict of a model whose predictions leave state behind,
\* called by the client that has the model checked out.
predictStateful(model) ==
    /\ pc = "idle"
    /\ model \in Values(in_use)
    /\ dirty' = dirty \cup {model}
    /\ UNCHANGED <<free, in_use, pc, result, added, tracked, checkouts, everOut,
                   order>>

\* ModelPool.free_count()
freeCount ==
    /\ pc = "idle"
    /\ result' = Call("free_count", None, "ok", Len(free), 0)
    /\ UNCHANGED <<free, in_use, pc, added, tracked, checkouts, everOut, dirty,
                   order>>

\* ModelPool.in_use_count()
inUseCount ==
    /\ pc = "idle"
    /\ result' = Call("in_use_count", None, "ok", Len(in_use), 0)
    /\ UNCHANGED <<free, in_use, pc, added, tracked, checkouts, everOut, dirty,
                   order>>

\* ModelPool.__str__(): f"Pool(free={self.free_count()}, in_use={self.in_use_count()})"
str ==
    /\ pc = "idle"
    /\ result' = Call("__str__", None, "ok",
                      <<"Pool(free=", free_count, ", in_use=", in_use_count, ")">>, 0)
    /\ UNCHANGED <<free, in_use, pc, added, tracked, checkouts, everOut, dirty,
                   order>>

(* ------------------------- pinned sub-states --------------------------- *)

DemoOff ==
    /\ phase = "off"
    /\ n = 0
    /\ got = <<>>
    /\ extra = "none"

SampleOff ==
    /\ shift = <<>>
    /\ shift0 = <<>>
    /\ x = <<>>
    /\ xin = <<>>
    /\ y = <<>>
    /\ px = <<>>
    /\ py = <<>>
    /\ lastOp = "none"

BuilderOff ==
    /\ input = 0
    /\ layers = <<>>
    /\ names = <<>>
    /\ counter = <<>>
    /\ network = [built |-> FALSE, layers |-> <<>>, names |-> <<>>]
    /\ lastAdd = [op |-> "none", size |-> 0, preLen |-> 0]

(* -------------------- the pool under arbitrary clients ----------------- *)

Init == PoolInit /\ DemoOff /\ SampleOff /\ BuilderOff

Add == \E model \in Models : add(model) /\ UNCHANGED <<demoVars, sampleVars, builderVars>>

Get == get /\ UNCHANGED <<demoVars, sampleVars, builderVars>>

Release == \E model \in Models : release(model) /\ UNCHANGED <<demoVars, sampleVars, builderVars>>

ResetReturns == releaseReturn /\ UNCHANGED <<demoVars, sampleVars, builderVars>>

ResetRaises == releaseRaise /\ UNCHANGED <<demoVars, sampleVars, builderVars>>

Predict == \E model \in Models : predictStateful(model) /\ UNCHANGED <<demoVars, sampleVars, builderVars>>

FreeCount == freeCount /\ UNCHANGED <<demoVars, sampleVars, builderVars>>

InUseCount == inUseCount /\ UNCHANGED <<demoVars, sampleVars, builderVars>>

Str == str /\ UNCHANGED <<demoVars, sampleVars, builderVars>>

Next ==
    \/ Add \/ Get \/ Release \/ ResetReturns \/ ResetRaises \/ Predict
    \/ FreeCount \/ InUseCount \/ Str

Spec == Init /\ [][Next]_vars

(* ------------------------------ SampleModel ---------------------------- *)

\* random.randint(-10, 10) for entry i of _shift, as a generator seeded with seed.
randint(seed, i) ==
    ((seed * 7 + i * 13 + seed * i * i) % (2 * ShiftBound + 1)) - ShiftBound

\* SampleModel.__init__: _shift
ShiftOf(seed) == [i \in 1 .. ShiftLen |-> randint(seed, i)]

\* The input lists the callers pass: constant lists and ramps, [1, 2, 3] of
\* the demo among them.
InputList(len, a, b) == [i \in 1 .. len |-> a + b * (i - 1)]

Inputs == {InputList(len, a, b) : len \in 0 .. MaxLen, a \in {-5, 1}, b \in {0, 1}}

\* A comprehension that counts the positions from 1: enumerate(x, 1).
predictFromOne(s, xs) == [i \in 1 .. Len(xs) |-> xs[i] + s[(i % Len(s)) + 1]]

\* SampleModel.predict: [x_ + self._shift[i % len(self._shift)] for i, x_ in
\* enumerate(x)]; position i of Python is index i + 1 here.
predict(s, xs) == [i \in 1 .. Len(xs) |-> xs[i] + s[((i - 1) % Len(s)) + 1]]

SampleInit ==
    /\ \E seed \in 0 .. MaxSeed : shift = ShiftOf(seed)
    /\ shift0 = shift
    /\ x = <<>>
    /\ xin = <<>>
    /\ y = <<>>
    /\ px = <<>>
    /\ py = <<>>
    /\ lastOp = "init"

\* A call of SampleModel.predict(xs): the comprehension builds a new list and
\* assigns neither to _shift nor to the argument.
samplePredict(xs) ==
    /\ xin' = xs
    /\ x' = xs
    /\ y' = predict(shift, xs)
    /\ px' = xin
    /\ py' = y
    /\ lastOp' = IF lastOp = "reset" THEN "predict after reset" ELSE "predict"
    /\ UNCHANGED <<shift, shift0>>

\* A call of SampleModel.reset(): pass.
sampleReset ==
    /\ lastOp' = "reset"
    /\ UNCHANGED <<shift, shift0, x, xin, y, px, py>>

(* --------------------- one SampleModel and its callers ----------------- *)

InitSample == PoolInit /\ DemoOff /\ SampleInit /\ BuilderOff

SamplePredict == \E xs \in Inputs : samplePredict(xs) /\ UNCHANGED <<poolVars, demoVars, builderVars>>

SampleReset == sampleReset /\ UNCHANGED <<poolVars, demoVars, builderVars>>

NextSample == SamplePredict \/ SampleReset

SpecSample == InitSample /\ [][NextSample]_vars

(* ------------------------------ __main__ ------------------------------- *)

\* The script: create the pool, add n new SampleModels, get() n times and once
\* more, release every model got. (The script itself has n = 3 and stops
\* getting after the third.)
InitDemo ==
    /\ PoolInit
    /\ SampleOff
    /\ BuilderOff
    /\ phase = "add"
    /\ n \in 1 .. NumModels
    /\ got = <<>>
    /\ extra = "none"

\* pool.add(SampleModel())
DemoAdd ==
    /\ phase = "add"
    /\ \E model \in Models \ tracked : add(model)
    /\ phase' = IF added' = n THEN "get" ELSE "add"
    /\ UNCHANGED <<n, got, extra, sampleVars, builderVars>>

\* model_k = pool.get()
DemoGet ==
    /\ phase = "get"
    /\ Len(got) < n
    /\ get
    /\ got' = Append(got, result'.ret)
    /\ UNCHANGED <<phase, n, extra, sampleVars, builderVars>>

\* pool.get() after the n-th
DemoGetExtra ==
    /\ phase = "get"
    /\ Len(got) = n
    /\ get
    /\ extra' = result'.outcome
    /\ phase' = "release"
    /\ UNCHANGED <<n, got, sampleVars, builderVars>>

\* pool.release(m), up to the call of m.reset()
DemoRelease ==
    /\ phase = "release"
    /\ \E i \in DOMAIN got : got[i] \in Values(in_use) /\ release(got[i])
    /\ UNCHANGED <<demoVars, sampleVars, builderVars>>

\* SampleModel.reset() returns (it is `pass`), and release() with it
DemoResetReturns ==
    /\ phase = "release"
    /\ releaseReturn
    /\ phase' = IF in_use = <<>> THEN "done" ELSE "release"
    /\ UNCHANGED <<n, got, extra, sampleVars, builderVars>>

NextDemo == DemoAdd \/ DemoGet \/ DemoGetExtra \/ DemoRelease \/ DemoResetReturns

SpecDemo == InitDemo /\ [][NextDemo]_vars

(* ------------------------------ builder.py ----------------------------- *)

\* class Activation(Enum): the members, with the values auto() gives them.
Activation == [Linear |-> 1, ReLU |-> 2, Tanh |-> 3]

\* Activation.name
ActivationName(activation) ==
    CASE activation = Activation.Linear -> "Linear"
      [] activation = Activation.ReLU -> "ReLU"
      [] activation = Activation.Tanh -> "Tanh"

\* Layer(n_input, n_output, activation): the fields the shapes and the names
\* depend on (the neurons hold no shape of their own).
Layer(n_input, n_output, activation) ==
    [input |-> n_input, output |-> n_output, activation |-> activation]

\* Layer.activation()
activation_of(layer) == layer.activation

\* Layer.input_shape()
input_shape(layer) == layer.input

\* Layer.output_shape()
output_shape(layer) == layer.output

\* dict.get(key, default)
DictGet(d, key, default) == IF key \in DOMAIN d THEN d[key] ELSE default

\* `d[key] = value` on a dict held as a function
DictPut(d, key, value) ==
    [k \in DOMAIN d \cup {key} |-> IF k = key THEN value ELSE d[k]]

\* f"{activation.name} {k}"
LayerName(activation, k) == <<ActivationName(activation), " ", k>>

\* NeuralNetwork(layers, names): names is given, and as long as layers. The
\* object keeps the two lists themselves, not copies.
NeuralNetwork(layers_, names_) ==
    [built |-> TRUE, layers |-> layers_, names |-> names_]

\* NetworkBuilder.__init__(input_size)
BuilderInit ==
    /\ input \in 1 .. MaxSize
    /\ layers = <<>>
    /\ names = <<>>
    /\ counter = <<>>
    /\ network = [built |-> FALSE, layers |-> <<>>, names |-> <<>>]
    /\ lastAdd = [op |-> "__init__", size |-> input, preLen |-> 0]

\* An input size that is always the builder's own.
inputSizeOfBuilder == input

\* add_layer: the input size of the layer to add.
inputSizeOfNext ==
    IF Len(layers) > 0 THEN output_shape(layers[Len(layers)]) ELSE input

\* NetworkBuilder.add_layer(output_size, activation). A network built before
\* shares the two lists, so it sees the new layer too.
add_layer(output_size, activation) ==
    LET input_size == inputSizeOfNext
        count == DictGet(counter, activation, 0) + 1
    IN  /\ counter' = DictPut(counter, activation, count)
        /\ layers' = Append(layers, Layer(input_size, output_size, activation))
        /\ names' = Append(names, LayerName(activation, count))
        /\ network' = IF network.built
                      THEN [network EXCEPT !.layers = layers', !.names = names']
                      ELSE network
        /\ UNCHANGED input

\* NetworkBuilder.add_linear(output_size)
add_linear(output_size) ==
    /\ add_layer(output_size, Activation.Linear)
    /\ lastAdd' = [op |-> "add_linear", size |-> output_size, preLen |-> Len(layers)]

\* NetworkBuilder.add_relu(output_size)
add_relu(output_size) ==
    /\ add_layer(output_size, Activation.ReLU)
    /\ lastAdd' = [op |-> "add_relu", size |-> output_size, preLen |-> Len(layers)]

\* NetworkBuilder.add_tanh(output_size): the source passes Activation.Linear.
add_tanh(output_size) ==
    /\ add_layer(output_size, Activation.Linear)
    /\ lastAdd' = [op |-> "add_tanh", size |-> output_size, preLen |-> Len(layers)]

\* NetworkBuilder.build()
build ==
    /\ network' = NeuralNetwork(layers, names)
    /\ lastAdd' = [op |-> "build", size |-> 0, preLen |-> Len(layers)]
    /\ UNCHANGED <<input, layers, names, counter>>

(* --------------------- one NetworkBuilder and its caller --------------- *)

InitBuilder == PoolInit /\ DemoOff /\ SampleOff /\ BuilderInit

AddLinear ==
    /\ Len(layers) < MaxLayers
    /\ \E output_size \in 1 .. MaxSize : add_linear(output_size)
    /\ UNCHANGED <<poolVars, demoVars, sampleVars>>

AddRelu ==
    /\ Len(layers) < MaxLayers
    /\ \E output_size \in 1 .. MaxSize : add_relu(output_size)
    /\ UNCHANGED <<poolVars, demoVars, sampleVars>>

AddTanh ==
    /\ Len(layers) < MaxLayers
    /\ \E output_size \in 1 .. MaxSize : add_tanh(output_size)
    /\ UNCHANGED <<poolVars, demoVars, sampleVars>>

Build == build /\ UNCHANGED <<poolVars, demoVars, sampleVars>>

NextBuilder == AddLinear \/ AddRelu \/ AddTanh \/ Build

SpecBuilder == InitBuilder /\ [][NextBuilder]_vars

(* ------------------------ properties of the pool ----------------------- *)

\* The models of a dict, in insertion order.
ModelsOf(d) == [i \in DOMAIN d |-> d[i].model]

\* C1: after each add/get/release call, free_count() + in_use_count() equals
\* the number of add calls that have succeeded so far.
CountsSumToAdds == pc = "idle" => free_count + in_use_count = added

\* C2: in every reachable state every model ever added is in exactly one of
\* free and in_use, and no model that was never added is in either.
PartitionOfTracked ==
    \A m \in Models :
        IF m \in tracked
        THEN /\ m \in Values(free) \cup Values(in_use)
             /\ m \notin Values(free) \cap Values(in_use)
        ELSE m \notin Values(free) \cup Values(in_use)

\* C3: a model returned by get() is not returned by a later get() unless a
\* successful release of it came in between: no model has two outstanding
\* checkouts.
ExclusiveCheckout == \A m \in Models : checkouts[m] <= 1

\* C4: a successful release invokes reset() exactly once, the reset is over
\* before the model is in free, and so every model in free that was checked
\* out before carries no state of its earlier use.
ResetBeforeFree ==
    /\ (result.op = "release" /\ result.outcome = "ok") =>
            result.nreset = 1 /\ result.arg \in Values(free)
    /\ pc = "reset" => result.arg \notin Values(free)
    /\ \A m \in Values(free) \cap everOut : m \notin dirty

\* C5: when reset() raises inside release(model), the error reaches the
\* caller, the model is still in in_use, and both dicts are as before the call.
FailedResetKeepsInUse ==
    (result.op = "release" /\ result.outcome = "ResetError") =>
        /\ result.arg \in Values(in_use)
        /\ result.arg \notin Values(free)
        /\ free = result.preFree
        /\ in_use = result.preInUse

\* C6: release of a model that is not in in_use fails with an error that
\* reaches the caller, invokes no reset(), and leaves both dicts unchanged.
ReleaseNotInUseFails ==
    (result.op = "release" /\ result.arg \notin Values(result.preInUse)) =>
        /\ result.outcome = "AssertionError"
        /\ result.nreset = 0
        /\ pc = "idle"
        /\ free = result.preFree
        /\ in_use = result.preInUse

\* A second release of a model after its successful release has failed.
WitnessDoubleRelease ==
    /\ result.op = "release"
    /\ result.outcome = "AssertionError"
    /\ result.arg \in Values(result.preFree) \cap everOut

\* C7: add of a model that is tracked (in free or in in_use) fails with an
\* error that reaches the caller and leaves both dicts unchanged; add of an
\* untracked model succeeds and puts it in free, whatever the internal state
\* of the tracked models.
AddChecksIdentity ==
    result.op = "add" =>
        IF result.arg \in Values(result.preFree) \cup Values(result.preInUse)
        THEN /\ result.outcome = "AssertionError"
             /\ free = result.preFree
             /\ in_use = result.preInUse
        ELSE /\ result.outcome = "ok"
             /\ ModelsOf(free) = Append(ModelsOf(result.preFree), result.arg)
             /\ in_use = result.preInUse

\* An add of a checked-out model has failed while a distinct model with the
\* same internal state sits in free, where its own add put it.
WitnessDuplicateAdd ==
    /\ result.op = "add"
    /\ result.outcome = "AssertionError"
    /\ result.arg \in Values(in_use)
    /\ \E m \in Values(free) \ everOut :
            (m \in dirty) = (result.arg \in dirty)

\* C8: get() on a pool whose free dict is empty fails at once with an error
\* that reaches the caller: it returns no model, tracks no new model and
\* leaves both dicts unchanged.
GetOnEmptyFails ==
    (result.op = "get" /\ result.preFree = <<>>) =>
        /\ result.outcome = "KeyError"
        /\ result.ret = None
        /\ pc = "idle"
        /\ free = result.preFree
        /\ in_use = result.preInUse

\* A get() has failed on a pool all of whose models are checked out.
WitnessGetExhausted ==
    /\ result.op = "get"
    /\ result.outcome = "KeyError"
    /\ in_use # <<>>
    /\ Values(in_use) = tracked

\* C9: from a new pool (both counts 0), after adding n distinct models
\* free_count() = n; then exactly n get() calls succeed, returning n distinct
\* models and leaving in_use_count() = n, free_count() = 0; the get() after
\* them fails; releasing all n gives free_count() = n, in_use_count() = 0.
DemoScenario ==
    /\ (phase = "add" /\ added = 0) => free_count = 0 /\ in_use_count = 0
    /\ phase = "add" => free_count = added /\ in_use_count = 0
    /\ phase = "get" =>
            /\ free_count = n - Len(got)
            /\ in_use_count = Len(got)
    /\ phase # "add" =>
            /\ \A i \in DOMAIN got : got[i] \in Models
            /\ \A i, j \in DOMAIN got : i # j => got[i] # got[j]
    /\ phase \in {"release", "done"} =>
            /\ Len(got) = n
            /\ extra = "KeyError"
    /\ (phase = "release" /\ result.op = "get") =>
            free_count = 0 /\ in_use_count = n
    /\ phase = "done" => free_count = n /\ in_use_count = 0

\* The script has run to its end with the three models of the demo.
WitnessDemoDone == phase = "done" /\ n = 3 /\ Len(got) = 3

\* C10: SampleModel.predict(x) returns a list as long as x whose element at
\* position i is x[i] + shift[i mod 10]; it changes neither _shift nor x; and
\* two calls with the same x, a reset() in between or not, return equal lists.
PredictPure ==
    /\ Len(y) = Len(xin)
    /\ \A i \in 1 .. Len(y) : y[i] = xin[i] + shift0[((i - 1) % 10) + 1]
    /\ shift = shift0
    /\ x = xin
    /\ px = xin => py = y

\* The same list, longer than _shift, has been predicted twice with a reset()
\* between the two calls.
WitnessPredictTwice ==
    /\ lastOp = "predict after reset"
    /\ Len(xin) > ShiftLen
    /\ px = xin

\* A dict without the entry of model m.
Without(d, m) == SelectSeq(d, LAMBDA e : e.model # m)

\* C11: a successful add(r) only inserts r into free; a successful get() only
\* moves the model it returns, which was in free, from free to in_use; a
\* successful release(r) only moves r from in_use to free; free_count(),
\* in_use_count() and __str__ change neither dict.
FrameOfCalls ==
    /\ (result.op = "add" /\ result.outcome = "ok") =>
            /\ result.arg \notin Values(result.preFree)
            /\ result.arg \in Values(free)
            /\ Without(free, result.arg) = result.preFree
            /\ in_use = result.preInUse
    /\ (result.op = "get" /\ result.outcome = "ok") =>
            /\ result.ret \in Values(result.preFree)
            /\ result.ret \notin Values(result.preInUse)
            /\ result.ret \in Values(in_use)
            /\ free = Without(result.preFree, result.ret)
            /\ Without(in_use, result.ret) = result.preInUse
    /\ (result.op = "release" /\ result.outcome = "ok") =>
            /\ result.arg \in Values(result.preInUse)
            /\ result.arg \notin Values(result.preFree)
            /\ result.arg \in Values(free)
            /\ in_use = Without(result.preInUse, result.arg)
            /\ Without(free, result.arg) = result.preFree
    /\ result.op \in {"free_count", "in_use_count", "__str__"} =>
            /\ free = result.preFree
            /\ in_use = result.preInUse

\* A release has succeeded while other models were in free and in in_use.
WitnessReleaseAmongOthers ==
    /\ result.op = "release"
    /\ result.outcome = "ok"
    /\ Len(free) >= 2
    /\ in_use # <<>>

\* C12: get() returns, among the models in free, the one that entered free
\* most recently, whether it entered by add or by a successful release.
GetIsLifo ==
    /\ Len(order) = Len(free)
    /\ {order[i].model : i \in DOMAIN order} = Values(free)
    /\ (result.op = "get" /\ result.outcome = "ok") =>
            result.ret = result.preOrder[Len(result.preOrder)].model

\* A get() has returned a model that had come back by release, while a model
\* added earlier and never checked out was in free as well.
WitnessGetAfterRelease ==
    /\ result.op = "get"
    /\ result.outcome = "ok"
    /\ Len(result.preOrder) >= 2
    /\ result.preOrder[Len(result.preOrder)].by = "release"
    /\ result.preOrder[1].by = "add"

(* ----------------------- properties of the builder --------------------- *)

\* The activation the name of an add_* method announces.
Announced(op) ==
    CASE op = "add_linear" -> Activation.Linear
      [] op = "add_relu" -> Activation.ReLU
      [] op = "add_tanh" -> Activation.Tanh

\* C13: each add_linear / add_relu / add_tanh call appends exactly one layer,
\* whose activation is Linear, ReLU and Tanh respectively and whose name is
\* '<activation name> <k>', k the number of layers with that activation so far.
AddAppendsAnnouncedLayer ==
    lastAdd.op \in {"add_linear", "add_relu", "add_tanh"} =>
        LET want == Announced(lastAdd.op)
            k == Cardinality({i \in DOMAIN layers : activation_of(layers[i]) = want})
        IN  /\ Len(layers) = lastAdd.preLen + 1
            /\ Len(names) = Len(layers)
            /\ activation_of(layers[Len(layers)]) = want
            /\ names[Len(names)] = <<ActivationName(want), " ", k>>

\* The shapes of a list of layers fit: the first takes the builder's input
\* size, every later one the output of the one before it.
Chained(ls) ==
    /\ Len(ls) > 0 => input_shape(ls[1]) = input
    /\ \A i \in 2 .. Len(ls) : input_shape(ls[i]) = output_shape(ls[i - 1])

\* C14: at every point the first layer's input_shape() is the builder's
\* input_size and every later layer's input_shape() is the output_shape() of
\* the layer before it; the network build() returned has the same chain.
ShapesChain ==
    /\ Chained(layers)
    /\ network.built => Chained(network.layers) /\ network.layers = layers

\* A network of three layers has been built whose second layer takes an
\* input of another size than the network's.
WitnessBuiltChain ==
    /\ network.built
    /\ Len(network.layers) >= 3
    /\ input_shape(network.layers[2]) # input
    /\ output_shape(network.layers[2]) # output_shape(network.layers[1])

====
